---- MODULE Spec2Model ----
(***************************************************************************)
(* Model of the PerfBatch benchmark page (src/src/main.tsx).               *)
(*                                                                         *)
(* The component's React state, the document it touches and every          *)
(* invocation of the async function runOne are the state.  An invocation   *)
(* is a record with a program position (pc) and what it is suspended on    *)
(* (wait): a requestAnimationFrame callback ("raf"), the commit signal of  *)
(* the benchmark root ("commit"), or an already resolved promise whose     *)
(* continuation is a pending microtask ("micro").  Code between two        *)
(* suspension points runs as one step: the page is single threaded.        *)
(*                                                                         *)
(* Numbers.  The numeric inputs take any number the user types, also       *)
(* fractions and negatives (Number(e.target.value)).  A JavaScript number  *)
(* v is represented by the integer v + v, so that one half is the          *)
(* smallest fraction; Num(n) is the representation of the literal n.       *)
(***************************************************************************)
EXTENDS Integers, Sequences, FiniteSets

\* ------------------------------------------------------------------ bounds

\* runOne invocations in one behaviour
MaxRuns == 3
\* edits of the configuration inputs in one behaviour
MaxEdits == 1
\* largest duration a timer or the Profiler reports, in ms
MaxElapsed == 1

\* ------------------------------------------------------------ JS numbers

Num(n) == n + n

\* ToLength of Array.from({ length: x }): truncate, clamp at 0; a plain count
ToLength(x) == IF x <= 0 THEN 0 ELSE x \div 2

\* number of passes of `for (let i = 0; i < n; i++)`; a plain count
LoopPasses(n) == IF n <= 0 THEN 0 ELSE (n + 1) \div 2

\* a / b of two numbers, kept as the fraction; x/0 is NaN or Infinity
JsDiv(a, b) ==
  IF b = 0 THEN (IF a = 0 THEN [nan |-> TRUE, num |-> 0, den |-> 0]
                           ELSE [nan |-> FALSE, num |-> a, den |-> 0])
           ELSE [nan |-> FALSE, num |-> a, den |-> b]

\* the null of the error state
Null == "null"

\* ---------------------------------------------------------------- inputs

BenchNames == <<"local(FlexBasic)", "native(WebComponent)", "react-layout-kit(Flexbox)">>

BenchName == {BenchNames[k] : k \in 1..Len(BenchNames)}

\* values typed into the numeric inputs: -1, 0, 1/2, 1, 2
IterationChoices == {0, Num(1)}
LoopChoices == {Num(-1), 0, 1, Num(1), Num(2)}
FlexboxChoices == {0, Num(1)}
ItemChoices == {0, Num(1)}

\* the durations a pair of now() readings or the Profiler can report
Elapsed == {Num(d) : d \in 1..MaxElapsed}

\* ------------------------------------------------------------------ state

VARIABLES
  running,          \* useState(false): a run is in flight
  results,          \* useState(null): the Result Store, null or a list
  error,            \* useState(null): the message of the last failed run
  cfg,              \* the five configuration states behind the inputs
  disabled,         \* the disabled attribute of the run and clear buttons
  hasGC,            \* the host exposes window.gc
  hasMemory,        \* the host exposes performance.memory
  procs,            \* the runOne invocations in flight, by invocation number
  runs,             \* per invocation number: its name and how it ended
  edits,            \* configuration edits so far
  bodyContainers,   \* offscreen containers attached to document.body
  liveRoots,        \* roots that have rendered and are not unmounted
  headStyles,       \* data-emotion keys of the style elements in the document
  latest,           \* per name, the result of its last completed run since the last clear
  order,            \* names in the order of their first upsert since the last clear
  consoleTable      \* the rows of the last console.table call

vars == <<running, results, error, cfg, disabled, hasGC, hasMemory, procs,
          runs, edits, bodyContainers, liveRoots, headStyles, latest, order,
          consoleTable>>

RunIds == 1..MaxRuns

NoRun == [status |-> "none", name |-> ""]

Started == Cardinality({r \in RunIds : runs[r].status # "none"})

\* no continuation is waiting as a microtask: the next macrotask may run
NoMicro == \A r \in DOMAIN procs : procs[r].wait # "micro"

\* an event of an invocation: what, on which prop list or sample, with which value
Ev(e, k, v) == [e |-> e, k |-> k, v |-> v]

\* --------------------------------------------------------------- helpers

\* data-emotion keys as strings of characters
Css == <<"c", "s", "s">>
\* the keys an implementation under test may inject: one that the cleanup
\* matches and one that it does not
StyleKeys == {Css \o <<"-", "x">>, <<"a">> \o Css}

RECURSIVE TrimStart(_)
TrimStart(s) == IF s # <<>> /\ Head(s) = " " THEN TrimStart(Tail(s)) ELSE s

RECURSIVE TrimEnd(_)
TrimEnd(s) == IF s # <<>> /\ s[Len(s)] = " " THEN TrimEnd(SubSeq(s, 1, Len(s) - 1)) ELSE s

Trim(s) == TrimEnd(TrimStart(s))

StartsWith(s, prefix) ==
  Len(s) >= Len(prefix) /\ SubSeq(s, 1, Len(prefix)) = prefix

\* a cleanup that removes nothing
cleanupNothing(styles) == styles

\* the style tags that survive cleanupEmotionStyleTags
cleanupEmotionStyleTags(styles) == {key \in styles : ~StartsWith(Trim(key), Css)}

NoMemory == [defined |-> FALSE, usedJSHeapSize |-> 0]
HeapSizes == {1048576}

\* the values readMemory can return
readMemory == IF hasMemory
              THEN {[defined |-> TRUE, usedJSHeapSize |-> h] : h \in HeapSizes}
              ELSE {NoMemory}

buildFixedProps ==
  [direction |-> "horizontal", gap |-> 8, padding |-> 8,
   justify |-> "space-between", align |-> "center", wrap |-> "wrap"]

\* the results of buildRandomProps: one draw of its picks stands for all of them
buildRandomProps ==
  { [direction |-> "vertical-reverse", align |-> "baseline", justify |-> "space-evenly",
     wrap |-> "wrap-reverse", gap |-> 16, padding |-> 2, width |-> 120, flex |-> 1] }

\* the lists buildPropsList can return under the captured configuration c
buildPropsList(c) ==
  LET n == LoopPasses(c.flexboxCount) IN
  IF c.randomPropsEnabled
  THEN [1..n -> buildRandomProps]
  ELSE {[k \in 1..n |-> buildFixedProps]}

NoResults == [null |-> TRUE, list |-> <<>>]

\* an upsert that drops the old entry and appends the new one
upsertMovingToEnd(prev, next) ==
  LET list == IF prev.null THEN <<>> ELSE prev.list
      keep(x) == x.name # next.name
  IN  [null |-> FALSE, list |-> Append(SelectSeq(list, keep), next)]

\* the list upsertResult's updater returns for prev
upsertResult(prev, next) ==
  LET list == IF prev.null THEN <<>> ELSE prev.list
      found == {k \in 1..Len(list) : list[k].name = next.name}
  IN  IF found # {}
      THEN LET idx == CHOOSE k \in found : \A j \in found : k <= j
           IN  [null |-> FALSE, list |-> [list EXCEPT ![idx] = next]]
      ELSE [null |-> FALSE, list |-> Append(list, next)]

\* ------------------------------------------------------------ invocations

NoCreate == [done |-> FALSE]
NoEntry == [done |-> FALSE, name |-> ""]

\* a runOne invocation right after its synchronous start; c is the configuration
\* its closure captured
NewProc(name, c) ==
  [pc |-> "runOneBody", wait |-> "raf", name |-> name, cfg |-> c,
   propsList |-> <<>>, propsListsForUpdate |-> <<>>,
   createBefore |-> NoMemory, createAfter |-> NoMemory, createTotal |-> 0,
   create |-> NoCreate,
   rendering |-> -1, actualDurationMs |-> 0,
   i |-> 0, wallTotal |-> 0, actualTotal |-> 0,
   mountBefore |-> NoMemory, mountAfter |-> NoMemory,
   ret |-> "", thrown |-> "", log |-> <<>>, resultsAtStart |-> results]

Log(p, e, k, v) == [p EXCEPT !.log = Append(@, Ev(e, k, v))]

\* the continuation at pc of invocation r can run now: from a microtask, or from
\* the animation frame callback it waits for
Resumable(r, pc) ==
  /\ r \in DOMAIN procs
  /\ procs[r].pc = pc
  /\ \/ procs[r].wait = "micro"
     \/ procs[r].wait = "raf" /\ NoMicro

\* the invocation as it resumes: a frame boundary has passed if it waited for one
Resumed(r) == IF procs[r].wait = "raf" THEN Log(procs[r], "frame", 0, 0) ELSE procs[r]

\* a settle step that waits for a frame with or without the hook
maybeGCAlwaysFrame(p, next) ==
  IF hasGC
  THEN [Log(Log(p, "settle", 0, 0), "gc", 0, 0) EXCEPT !.pc = next, !.wait = "raf"]
  ELSE [Log(p, "settle", 0, 0) EXCEPT !.pc = next, !.wait = "raf"]

\* await maybeGC(), continuing at pc next
maybeGC(p, next) ==
  IF hasGC
  THEN [Log(Log(p, "settle", 0, 0), "gc", 0, 0) EXCEPT !.pc = next, !.wait = "raf"]
  ELSE [Log(p, "settle", 0, 0) EXCEPT !.pc = next, !.wait = "micro"]

Throw(p, msg) == [p EXCEPT !.pc = "thrown", !.thrown = msg]

\* renderAndWait(propsLists[idx]) up to `await committed`, its caller continuing
\* at ret; propsLists[idx] is undefined past the end of the array, and
\* buildBenchmarkTree then throws on propsList.map
renderAndWait(p, idx, ret) ==
  IF idx + 1 > Len(p.propsListsForUpdate)
  THEN Throw(p, "TypeError")
  ELSE [Log(p, "render", idx, 0) EXCEPT !.rendering = idx, !.actualDurationMs = 0,
                                     !.ret = ret,
                                     !.pc = "committed", !.wait = "commit"]

Remove(r) == [x \in DOMAIN procs \ {r} |-> procs[x]]

\* a catch that also drops the stored results
CatchClearing(r, p) ==
  /\ error' = p.thrown
  /\ running' = FALSE
  /\ procs' = Remove(r)
  /\ runs' = [runs EXCEPT ![r].status = "Failed"]
  /\ results' = NoResults
  /\ UNCHANGED <<latest, order, consoleTable>>

\* a runOne without its finally block: a throw leaves the running flag set
CatchNoFinally(r, p) ==
  /\ error' = p.thrown
  /\ procs' = Remove(r)
  /\ runs' = [runs EXCEPT ![r].status = "Failed"]
  /\ UNCHANGED <<running, results, latest, order, consoleTable>>

\* catch and finally of runOne for the invocation p that threw
Catch(r, p) ==
  /\ error' = p.thrown
  /\ running' = FALSE
  /\ procs' = Remove(r)
  /\ runs' = [runs EXCEPT ![r].status = "Failed"]
  /\ UNCHANGED <<results, latest, order, consoleTable>>

\* the invocation goes on as p, or its throw reaches runOne's catch
Continue(r, p) ==
  IF p.pc = "thrown"
  THEN Catch(r, p)
  ELSE /\ procs' = [procs EXCEPT ![r] = p]
       /\ UNCHANGED <<running, results, error, runs, latest, order, consoleTable>>

\* --------------------------------------------------------------- initial

\* the configuration the page starts with, scaled down from 20, 20, 20 and 8
InitialConfig ==
  [createIterations |-> Num(1), mountLoops |-> Num(2),
   flexboxCount |-> Num(1), itemsPerFlexbox |-> Num(1),
   randomPropsEnabled |-> TRUE]

Init ==
  /\ running = FALSE
  /\ results = NoResults
  /\ error = Null
  /\ cfg = InitialConfig
  /\ disabled = FALSE
  /\ hasGC \in BOOLEAN
  /\ hasMemory \in BOOLEAN
  /\ procs = <<>>
  /\ runs = [r \in RunIds |-> NoRun]
  /\ edits = 0
  /\ bodyContainers = {}
  /\ liveRoots = {}
  /\ headStyles = {}
  /\ latest = [n \in BenchName |-> NoEntry]
  /\ order = <<>>
  /\ consoleTable = <<>>

\* ------------------------------------------------------------ the buttons

\* a run button that ignores the running flag
RunEnabledAlways == TRUE

\* a run button takes a click: disabled={running}
RunEnabled == ~disabled

\* a clear button that ignores the running flag
ClearEnabledAlways == TRUE

\* the clear button takes a click: disabled={running}
ClearEnabled == ~disabled

\* onClick={() => runOne(name)}: runOne up to its first await
ClickRun(name) ==
  /\ RunEnabled
  /\ NoMicro
  /\ Started < MaxRuns
  /\ LET r == Started + 1 IN
     /\ error' = Null
     /\ running' = TRUE
     /\ disabled' = TRUE
     /\ procs' = [x \in DOMAIN procs \cup {r} |->
                    IF x = r THEN NewProc(name, cfg) ELSE procs[x]]
     /\ runs' = [runs EXCEPT ![r].status = "Running", ![r].name = name]
  /\ UNCHANGED <<results, cfg, hasGC, hasMemory, edits, bodyContainers,
                 liveRoots, headStyles, latest, order, consoleTable>>

\* onClick={() => setResults(null)}
ClickClear ==
  /\ ClearEnabled
  /\ NoMicro
  /\ results' = NoResults
  /\ latest' = [n \in BenchName |-> NoEntry]
  /\ order' = <<>>
  /\ UNCHANGED <<running, error, cfg, disabled, hasGC, hasMemory, procs, runs,
                 edits, bodyContainers, liveRoots, headStyles, consoleTable>>

\* PerfBatch renders again after state was set outside an event handler
Rerender ==
  /\ NoMicro
  /\ disabled # running
  /\ disabled' = running
  /\ UNCHANGED <<running, results, error, cfg, hasGC, hasMemory, procs, runs,
                 edits, bodyContainers, liveRoots, headStyles, latest, order,
                 consoleTable>>

\* onChange of one of the five inputs
Change(field, v) ==
  /\ NoMicro
  /\ edits < MaxEdits
  /\ cfg[field] # v
  /\ cfg' = [cfg EXCEPT ![field] = v]
  /\ edits' = edits + 1
  /\ UNCHANGED <<running, results, error, disabled, hasGC, hasMemory, procs,
                 runs, bodyContainers, liveRoots, headStyles, latest, order,
                 consoleTable>>

ChangeRandomProps == \E v \in BOOLEAN : Change("randomPropsEnabled", v)
ChangeCreateIterations == \E v \in IterationChoices : Change("createIterations", v)
ChangeMountLoops == \E v \in LoopChoices : Change("mountLoops", v)
ChangeFlexboxCount == \E v \in FlexboxChoices : Change("flexboxCount", v)
ChangeItemsPerFlexbox == \E v \in ItemChoices : Change("itemsPerFlexbox", v)

\* ------------------------------------------------------------- runOne

SanityMsg == "create-only sanity check failed"
PropsListsMsg == "propsLists must include warmup + loops"
UnknownMsg == "Unknown case"

\* readMemory() returned m for sample k, taken with r's root mounted or not
Sample(p, r, field, k, m) ==
  [Log(p, "sample", k, IF r \in liveRoots THEN 1 ELSE 0) EXCEPT ![field] = m]

\* after `await raf()`: resolve the case, generate the prop lists, enter
\* runCreateOnlyForest up to its first await
RunOneBody(r) ==
  /\ Resumable(r, "runOneBody")
  /\ LET p == Resumed(r) IN
     IF p.name \notin BenchName
     THEN Catch(r, Throw(p, UnknownMsg))
     ELSE \E propsList \in buildPropsList(p.cfg) :
          \E lists \in [1..ToLength(p.cfg.mountLoops + Num(1)) -> buildPropsList(p.cfg)] :
            Continue(r, maybeGC(Log([p EXCEPT !.propsList = propsList,
                                              !.propsListsForUpdate = lists],
                                    "build", Len(lists), 0),
                                "createBefore"))
  /\ UNCHANGED <<cfg, disabled, hasGC, hasMemory, edits, bodyContainers,
                 liveRoots, headStyles>>

\* runCreateOnlyForest from the before-sample to the second maybeGC
CreateLoop(r) ==
  /\ Resumable(r, "createBefore")
  /\ \E before \in readMemory, total \in Elapsed :
       LET p == Sample(Resumed(r), r, "createBefore", 1, before)
           passes == LoopPasses(p.cfg.createIterations)
           q == Log(p, "createLoop", passes, total)
       IN  Continue(r, IF passes = 0   \* last is still null
                       THEN Throw(q, SanityMsg)
                       ELSE maybeGC([q EXCEPT !.createTotal = total], "createAfter"))
  /\ UNCHANGED <<cfg, disabled, hasGC, hasMemory, edits, bodyContainers,
                 liveRoots, headStyles>>

\* what runCreateOnlyForest returns
CreateResult(p, afterCreate) ==
  [done |-> TRUE, name |-> p.name,
   createOnlyMsTotal |-> p.createTotal,
   createOnlyMsPerOp |-> JsDiv(p.createTotal, p.cfg.createIterations),
   memory |-> [createBefore |-> p.createBefore, createAfter |-> afterCreate]]

\* an entry that attaches the container before it checks the prop lists
UpdateEntryLate(p, r, containers) ==
  IF Num(Len(p.propsListsForUpdate)) < p.cfg.mountLoops + Num(1)
  THEN [p |-> Throw(Log(p, "container", r, 0), PropsListsMsg),
        body |-> containers \cup {r}]
  ELSE [p |-> renderAndWait(Log(p, "container", r, 0), 0, "warmup"),
        body |-> containers \cup {r}]

\* runUpdateBatchKeepMounted from its entry to the warmup's `await committed`:
\* the invocation and the containers attached to document.body afterwards
UpdateEntry(p, r, containers) ==
  IF Num(Len(p.propsListsForUpdate)) < p.cfg.mountLoops + Num(1)
  THEN [p |-> Throw(p, PropsListsMsg), body |-> containers]
  ELSE [p |-> renderAndWait(Log(p, "container", r, 0), 0, "warmup"),
        body |-> containers \cup {r}]

\* the after-sample and return of runCreateOnlyForest, then
\* runUpdateBatchKeepMounted up to its first await
CreateDone(r) ==
  /\ Resumable(r, "createAfter")
  /\ \E afterCreate \in readMemory :
       LET p == Sample(Resumed(r), r, "createAfter", 2, afterCreate)
           e == UpdateEntry([p EXCEPT !.create = CreateResult(p, afterCreate)],
                            r, bodyContainers)
       IN  /\ Continue(r, e.p)
           /\ bodyContainers' = e.body
  /\ UNCHANGED <<cfg, disabled, hasGC, hasMemory, edits, liveRoots, headStyles>>

\* React commits the benchmark root: the Profiler reports the render's actual
\* duration, the implementation under test may inject a style element, and
\* MountSignal's layout effect resolves `committed`; renderAndWait goes on to
\* `await raf()`
Committed(r) ==
  /\ r \in DOMAIN procs
  /\ procs[r].wait = "commit"
  /\ NoMicro
  /\ \E d \in Elapsed :
       Continue(r, [Log(procs[r], "commit", procs[r].rendering, d)
                      EXCEPT !.actualDurationMs = @ + d,
                             !.pc = "rendered", !.wait = "raf"])
  /\ liveRoots' = liveRoots \cup {r}
  /\ \E injected \in {{}} \cup {{key} : key \in StyleKeys} :
       headStyles' = headStyles \cup injected
  /\ UNCHANGED <<cfg, disabled, hasGC, hasMemory, edits, bodyContainers>>

\* a loop that renders propsLists[i] instead of propsLists[i + 1]
LoopTestOffByOne(p) ==
  IF Num(p.i) < p.cfg.mountLoops
  THEN renderAndWait(p, p.i, "measured")
  ELSE maybeGC(p, "updateAfter")

\* `for (let i = 0; i < loops; i++)` at its test: the next measured render, or
\* the settle step after the loop
LoopTest(p) ==
  IF Num(p.i) < p.cfg.mountLoops
  THEN renderAndWait(p, p.i + 1, "measured")
  ELSE maybeGC(p, "updateAfter")

\* renderAndWait after its frame: the timer stops and the caller goes on, the
\* warmup to the settle step before the baseline sample, a measured render to
\* the totals and the next pass of the loop
Rendered(r) ==
  /\ Resumable(r, "rendered")
  /\ \E wallMs \in Elapsed :
       LET p == Log(Resumed(r), "stop", procs[r].rendering, wallMs) IN
       Continue(r, IF p.ret = "warmup"
                   THEN maybeGC(p, "updateBefore")
                   ELSE LoopTest([p EXCEPT !.wallTotal = @ + wallMs,
                                   !.actualTotal = @ + p.actualDurationMs,
                                   !.i = @ + 1]))
  /\ UNCHANGED <<cfg, disabled, hasGC, hasMemory, edits, bodyContainers,
                 liveRoots, headStyles>>

\* the baseline sample, then the loop from i = 0
UpdateLoop(r) ==
  /\ Resumable(r, "updateBefore")
  /\ \E before \in readMemory :
       Continue(r, LoopTest([Sample(Resumed(r), r, "mountBefore", 3, before)
                               EXCEPT !.wallTotal = 0, !.actualTotal = 0, !.i = 0]))
  /\ UNCHANGED <<cfg, disabled, hasGC, hasMemory, edits, bodyContainers,
                 liveRoots, headStyles>>

\* the after-sample, root.unmount(), container.remove(), `await raf()`
UpdateUnmount(r) ==
  /\ Resumable(r, "updateAfter")
  /\ \E after \in readMemory :
       Continue(r, [Log(Log(Sample(Resumed(r), r, "mountAfter", 4, after),
                            "unmount", r, 0), "remove", r, 0)
                      EXCEPT !.pc = "cleanup", !.wait = "raf"])
  /\ liveRoots' = liveRoots \ {r}
  /\ bodyContainers' = bodyContainers \ {r}
  /\ UNCHANGED <<cfg, disabled, hasGC, hasMemory, edits, headStyles>>

\* cleanupEmotionStyleTags(), then the last settle step
UpdateCleanup(r) ==
  /\ Resumable(r, "cleanup")
  /\ headStyles' = cleanupEmotionStyleTags(headStyles)
  /\ Continue(r, maybeGC(Log(Resumed(r), "cleanup", 0,
                              Cardinality(headStyles \ headStyles')),
                          "updateReturn"))
  /\ UNCHANGED <<cfg, disabled, hasGC, hasMemory, edits, bodyContainers, liveRoots>>

\* what runUpdateBatchKeepMounted returns
UpdateResult(p) ==
  [name |-> p.name,
   updateMsTotal |-> p.wallTotal,
   updateMsPerOp |-> JsDiv(p.wallTotal, p.cfg.mountLoops),
   reactActualDurationMsTotal |-> p.actualTotal,
   memory |-> [mountBefore |-> p.mountBefore, mountAfter |-> p.mountAfter]]

\* the CaseResult runOne merges from the two phases
Merged(create, update) ==
  [name |-> create.name,
   createOnlyMsTotal |-> create.createOnlyMsTotal,
   createOnlyMsPerOp |-> create.createOnlyMsPerOp,
   updateMsTotal |-> update.updateMsTotal,
   updateMsPerOp |-> update.updateMsPerOp,
   reactActualDurationMsTotal |-> update.reactActualDurationMsTotal,
   memory |-> [createBefore |-> create.memory.createBefore,
               createAfter |-> create.memory.createAfter,
               mountBefore |-> update.memory.mountBefore,
               mountAfter |-> update.memory.mountAfter]]

\* the row runOne hands to console.table for the merged result r, in its
\* configuration columns and its sample: they read the values the invocation's
\* closure captured; the measurement columns are the merged result formatted
\* for display and are not kept
ConsoleRow(p, r) ==
  [name |-> r.name,
   random |-> p.cfg.randomPropsEnabled,
   flexboxes |-> p.cfg.flexboxCount,
   items_per_flexbox |-> p.cfg.itemsPerFlexbox,
   props_sample |-> IF Len(p.propsList) >= 1
                    THEN [null |-> FALSE, json |-> p.propsList[1]]
                    ELSE [null |-> TRUE]]

\* runUpdateBatchKeepMounted returns; runOne merges, upserts, prints the row and
\* leaves through its finally block
RunOneDone(r) ==
  /\ Resumable(r, "updateReturn")
  /\ LET merged == Merged(procs[r].create, UpdateResult(procs[r])) IN
     /\ results' = upsertResult(results, merged)
     /\ latest' = [latest EXCEPT ![merged.name] = merged]
     /\ order' = IF \E k \in 1..Len(order) : order[k] = merged.name
                 THEN order ELSE Append(order, merged.name)
     /\ consoleTable' = <<ConsoleRow(procs[r], merged)>>
  /\ running' = FALSE
  /\ procs' = Remove(r)
  /\ runs' = [runs EXCEPT ![r].status = "Completed"]
  /\ UNCHANGED <<error, cfg, disabled, hasGC, hasMemory, edits, bodyContainers,
                 liveRoots, headStyles>>

\* ------------------------------------------------------- specification

Step(r) ==
  \/ RunOneBody(r)
  \/ CreateLoop(r)
  \/ CreateDone(r)
  \/ Committed(r)
  \/ Rendered(r)
  \/ UpdateLoop(r)
  \/ UpdateUnmount(r)
  \/ UpdateCleanup(r)
  \/ RunOneDone(r)

Next ==
  \/ \E k \in 1..Len(BenchNames) : ClickRun(BenchNames[k])
  \/ ClickClear
  \/ Rerender
  \/ ChangeRandomProps
  \/ ChangeCreateIterations
  \/ ChangeMountLoops
  \/ ChangeFlexboxCount
  \/ ChangeItemsPerFlexbox
  \/ \E r \in RunIds : Step(r)

Spec == Init /\ [][Next]_vars

\* every frame callback, commit signal and microtask an invocation waits for
\* eventually arrives
FairSpec == Spec /\ WF_vars(\E r \in RunIds : Step(r))

\* ----------------------------------------------------------------- claims

InFlight == DOMAIN procs

HasEvent(log, es) == \E j \in 1..Len(log) : log[j].e \in es

\* invocation r leaves runOne in this step
Exits(r) == r \in DOMAIN procs /\ r \notin DOMAIN procs'

\* C1: at most one runOne invocation is between its setRunning(true) and its
\* finally block, and while the running flag is set no run button takes a click
C1_SingleFlight ==
  /\ Cardinality(InFlight) <= 1
  /\ running => ~RunEnabled

\* a run is in flight and another invocation could still be started
C1_Witness ==
  /\ running
  /\ Cardinality(InFlight) = 1
  /\ Started < MaxRuns
  /\ NoMicro

\* C2: while a run is in flight the Result Store is what it was when the run
\* started, and a run that fails leaves it so and stores a message
C2_FailureKeepsResults ==
  [][\A r \in InFlight :
       /\ results = procs[r].resultsAtStart
       /\ Exits(r) /\ runs'[r].status = "Failed"
            => /\ results' = procs[r].resultsAtStart
               /\ error' \in {PropsListsMsg, SanityMsg, UnknownMsg, "TypeError"}]_vars

\* a run failed on too few prop lists after a run of the same name had completed
C2_Witness ==
  /\ runs[1].status = "Completed"
  /\ runs[2].status = "Failed"
  /\ runs[2].name = runs[1].name
  /\ error = PropsListsMsg
  /\ ~results.null
  /\ Len(results.list) = 1
  /\ results.list[1].name = runs[2].name

\* C3: Idle -> Running -> (Completed | Failed) -> Idle: the running flag is set
\* exactly while an invocation is in flight; a Completed exit upserts a result
\* and leaves no message, a Failed exit leaves a message and the store untouched
C3_RunStateMachine ==
  [][/\ running <=> InFlight # {}
     /\ running' <=> InFlight' # {}
     /\ \A r \in InFlight :
          Exits(r) =>
            \/ /\ runs'[r].status = "Completed"
               /\ error' = Null
               /\ \E k \in 1..Len(results'.list) :
                    /\ results'.list[k].name = procs[r].name
                    /\ results' = upsertResult(results, results'.list[k])
            \/ /\ runs'[r].status = "Failed"
               /\ error' # Null
               /\ results' = results]_vars

\* one run has completed and a later one has failed, and the page is idle
C3_Witness ==
  /\ runs[1].status = "Completed"
  /\ runs[2].status = "Failed"
  /\ InFlight = {}
  /\ ~running

UpdateEvents == {"container", "render", "commit", "stop", "unmount", "remove", "cleanup"}

\* C4: a run that fails on too few prop lists has attached no container,
\* rendered nothing and taken no update-phase sample or timing
C4_PreconditionBeforeMount ==
  [][\A r \in InFlight :
       Exits(r) /\ error' = PropsListsMsg
         => /\ bodyContainers' = bodyContainers
            /\ r \notin bodyContainers'
            /\ r \notin liveRoots'
            /\ ~HasEvent(procs[r].log, UpdateEvents)
            /\ \A j \in 1..Len(procs[r].log) :
                 procs[r].log[j].e = "sample" => procs[r].log[j].k \in {1, 2}]_vars

\* a run has failed on too few prop lists
C4_Witness ==
  /\ error = PropsListsMsg
  /\ \E r \in RunIds : runs[r].status = "Failed"
  /\ bodyContainers = {}

IsFinite(q) == q.den # 0

\* C5: no stored result has a per-operation time computed by dividing by zero:
\* a run with createIterations = 0 or mountLoops = 0 upserts nothing
C5_NoDivisionByZero ==
  \A k \in 1..Len(results.list) :
    /\ IsFinite(results.list[k].createOnlyMsPerOp)
    /\ IsFinite(results.list[k].updateMsPerOp)

\* C6: the Result Store holds one entry per name, each the result of the last
\* completed run of its name since the last clear, in the order in which the
\* names were first upserted since the last clear
C6_StoreByName ==
  /\ results.null => order = <<>>
  /\ Len(results.list) = Len(order)
  /\ \A k \in 1..Len(order) :
       /\ results.list[k].name = order[k]
       /\ results.list[k] = latest[order[k]]
  /\ \A j, k \in 1..Len(results.list) :
       results.list[j].name = results.list[k].name => j = k
  /\ \A n \in BenchName :
       latest[n] # NoEntry => \E k \in 1..Len(results.list) : results.list[k].name = n

\* runs 1 and 3 of one name and run 2 of another have completed with no clear
\* between them; the first entry is run 3's (one measured render, after the one
\* edit), the second is run 2's (two measured renders)
C6_Witness ==
  /\ \A r \in 1..3 : runs[r].status = "Completed"
  /\ runs[1].name = runs[3].name
  /\ runs[1].name # runs[2].name
  /\ Len(results.list) = 2
  /\ results.list[1].name = runs[1].name
  /\ results.list[1].updateMsPerOp.den = Num(1)
  /\ results.list[2].updateMsPerOp.den = Num(2)

\* the first event of log after the settle at j that is not the hook's call
AfterSettle(log, j) ==
  IF j + 1 <= Len(log) /\ log[j + 1].e = "gc" THEN j + 2 ELSE j + 1

Settles(log) ==
  {j \in 1..Len(log) : log[j].e = "settle" /\ AfterSettle(log, j) <= Len(log)}

\* C7 as claimed: every settle step waits for a frame boundary
C7_SettleAlwaysWaitsFrame ==
  \A r \in InFlight :
    \A j \in Settles(procs[r].log) :
      procs[r].log[AfterSettle(procs[r].log, j)].e = "frame"

\* C7 as amended: a settle step calls the hook and waits for a frame boundary
\* when the host exposes the hook, and waits for no frame when it does not
C7_SettleWaitsFrameOnlyWithGC ==
  \A r \in InFlight :
    \A j \in Settles(procs[r].log) :
      /\ hasGC <=> procs[r].log[j + 1].e = "gc"
      /\ hasGC <=> procs[r].log[AfterSettle(procs[r].log, j)].e = "frame"

\* without the hook the create-phase after-sample follows the create loop and
\* its settle step with no frame between
C7_Witness ==
  /\ ~hasGC
  /\ \E r \in InFlight :
       \E j \in 3..Len(procs[r].log) :
         /\ procs[r].log[j].e = "sample" /\ procs[r].log[j].k = 2
         /\ procs[r].log[j - 1].e = "settle"
         /\ procs[r].log[j - 2].e = "createLoop"

RECURSIVE SumV(_)
SumV(evs) == IF evs = <<>> THEN 0 ELSE Head(evs).v + SumV(Tail(evs))

IsRender(ev) == ev.e = "render"
IsMeasuredStop(ev) == ev.e = "stop" /\ ev.k >= 1
IsMeasuredCommit(ev) == ev.e = "commit" /\ ev.k >= 1

\* the invocations whose update phase is about to return its result
Returning == {r \in InFlight : procs[r].pc = "updateReturn"}

\* C8: when the update phase returns, it has rendered propsLists[0] as warmup
\* and then propsLists[1..loops], each awaited through its commit and one frame
\* before its timer stopped; the totals are the sums over the measured renders
\* only; the before-sample lies between the warmup's end and the first measured
\* render, with the tree mounted
C8_MeasuredRenders ==
  \A r \in Returning :
    LET p == procs[r]
        log == p.log
        renders == SelectSeq(log, IsRender)
    IN  /\ Num(Len(renders) - 1) = p.cfg.mountLoops
        /\ \A m \in 1..Len(renders) : renders[m].k = m - 1
        /\ \A j \in 1..Len(log) :
             log[j].e = "render" =>
               /\ j + 3 <= Len(log)
               /\ log[j + 1].e = "commit" /\ log[j + 1].k = log[j].k
               /\ log[j + 2].e = "frame"
               /\ log[j + 3].e = "stop" /\ log[j + 3].k = log[j].k
        /\ UpdateResult(p).updateMsTotal = SumV(SelectSeq(log, IsMeasuredStop))
        /\ UpdateResult(p).reactActualDurationMsTotal
             = SumV(SelectSeq(log, IsMeasuredCommit))
        /\ \E j \in 1..Len(log) :
             /\ log[j] = Ev("sample", 3, 1)
             /\ \E w \in 1..(j - 1) : log[w].e = "stop" /\ log[w].k = 0
             /\ \A m \in 1..Len(log) : log[m].e = "render" /\ log[m].k >= 1 => m > j

\* an update phase with two measured renders is about to return
C8_Witness ==
  \E r \in Returning :
    /\ procs[r].cfg.mountLoops = Num(2)
    /\ procs[r].i = 2

HasCssKey(styles) == \E key \in styles : StartsWith(key, Css)

\* C9: when the update phase returns, its after-sample was taken with the tree
\* mounted and before the unmount, its root is unmounted, its container is
\* detached and no style element with a css key is left; with every run so far
\* completed and none in flight the document holds no container and no such tag
C9_CleanAfterUpdate ==
  /\ \A r \in Returning :
       LET log == procs[r].log IN
       /\ \E j \in 1..Len(log) :
            /\ log[j] = Ev("sample", 4, 1)
            /\ \A m \in 1..Len(log) : log[m].e \in {"unmount", "remove"} => m > j
       /\ r \notin liveRoots
       /\ r \notin bodyContainers
       /\ ~HasCssKey(headStyles)
  /\ (InFlight = {} /\ \A r \in RunIds : runs[r].status \in {"none", "Completed"})
       => /\ bodyContainers = {}
          /\ liveRoots = {}
          /\ ~HasCssKey(headStyles)

\* a second run's update phase is about to return after its cleanup removed a
\* style element
C9_Witness ==
  \E r \in Returning :
    /\ r >= 2
    /\ \E j \in 1..Len(procs[r].log) :
         procs[r].log[j].e = "cleanup" /\ procs[r].log[j].v >= 1

\* C10: with every awaited frame and commit arriving, every started run ends;
\* a run waiting for a commit signal leaves that wait only by the commit, and
\* until then the running flag stays set, the buttons stay disabled, the store
\* is unchanged and no message is captured
C10_TerminatesWithSignals ==
  /\ (InFlight # {}) ~> (InFlight = {} /\ ~running)
  /\ [][\A r \in InFlight :
          procs[r].wait = "commit" =>
            /\ running /\ running'
            /\ ~RunEnabled /\ ~ClearEnabled
            /\ error = Null /\ error' = Null
            /\ results' = results
            /\ r \in InFlight'
            /\ \/ procs'[r] = procs[r]
               \/ /\ procs'[r].wait = "raf"
                  /\ procs'[r].log[Len(procs'[r].log)].e = "commit"]_vars

\* a run is waiting for the commit signal of a measured render
C10_Witness ==
  \E r \in InFlight :
    /\ procs[r].wait = "commit"
    /\ procs[r].rendering >= 1
    /\ running

\* the invocations that have left runOne, Completed or Failed
Exited == {r \in RunIds : runs[r].status \in {"Completed", "Failed"}}

\* C11: whenever a run has exited, Completed or Failed, its offscreen container
\* is no longer attached to the document and its root is no longer mounted
C11_ExitLeavesNothingMounted ==
  \A r \in Exited : r \notin bodyContainers /\ r \notin liveRoots

\* the values of the events e in a log
EventKeys(log, e) == {log[j].k : j \in {x \in 1..Len(log) : log[x].e = e}}

\* invocation r works from the configuration its closure captured: the creation
\* loop's passes, the measured renders counted so far and the length of every
\* prop list follow that configuration
UsesCaptured(r) ==
  LET p == procs[r] IN
  /\ \A k \in EventKeys(p.log, "createLoop") : Num(k) = p.cfg.createIterations
  /\ p.pc # "runOneBody" =>
       /\ Num(Len(p.propsList)) = p.cfg.flexboxCount
       /\ \A j \in 1..Len(p.propsListsForUpdate) :
            Num(Len(p.propsListsForUpdate[j])) = p.cfg.flexboxCount
  /\ Num(p.i) <= p.cfg.mountLoops \/ p.i = 0
  /\ p.pc = "updateReturn" => Num(p.i) = p.cfg.mountLoops

\* a step leaves the configuration of every run in flight as it was when the
\* run was triggered, whatever the inputs are changed to, and a run that
\* completes prints its row from that configuration
CapturedAtTrigger ==
  /\ \A r \in InFlight' \ InFlight : procs'[r].cfg = cfg
  /\ \A r \in InFlight \cap InFlight' : procs'[r].cfg = procs[r].cfg
  /\ \A r \in InFlight' : UsesCaptured(r)'
  /\ \A r \in InFlight :
       Exits(r) /\ runs'[r].status = "Completed" =>
         /\ Len(consoleTable') = 1
         /\ consoleTable'[1].name = procs[r].name
         /\ consoleTable'[1].random = procs[r].cfg.randomPropsEnabled
         /\ consoleTable'[1].flexboxes = procs[r].cfg.flexboxCount
         /\ consoleTable'[1].items_per_flexbox = procs[r].cfg.itemsPerFlexbox

\* the number of update prop lists every run in flight generated is its loop
\* count plus one
ListsAreLoopsPlusOne ==
  \A r \in InFlight' :
    \A k \in EventKeys(procs'[r].log, "build") :
      Num(k) = procs'[r].cfg.mountLoops + Num(1)

\* C12: a run uses only the configuration in effect when it was triggered:
\* edits made while it is in flight change neither the counts it works with nor
\* the row it prints, and the number of update prop lists it generated equals
\* its own loop count plus one
C12_RunUsesTriggerConfig ==
  [][CapturedAtTrigger /\ ListsAreLoopsPlusOne]_vars

====
